---- MODULE Spec2Model ----
(***************************************************************************)
(* Model of preprocess.py: the chunker (create_chunks), the two ingestion  *)
(* passes (process_discourse, process_markdown), the embedding backfill    *)
(* (generate_embeddings) and the driver (main), over a SQLite store with   *)
(* two tables.  A table is the sequence of its committed rows; a row's id  *)
(* (INTEGER PRIMARY KEY AUTOINCREMENT) is its position in the sequence.    *)
(* Text is a sequence of one-character strings.                            *)
(***************************************************************************)
EXTENDS Integers, Sequences, FiniteSets, TLC

VARIABLES
    pc,                 \* position of the process inside main()
    tablesExist,        \* create_db has run on this store
    discourse_chunks,   \* committed rows of table discourse_chunks
    markdown_chunks,    \* committed rows of table markdown_chunks
    posts,              \* posts read from DISCOURSE_FILE by the last process_discourse
    docs,               \* files listed in MARKDOWN_DIR by the last process_markdown
    dBase,              \* rows of discourse_chunks before the last process_discourse
    mBase,              \* rows of markdown_chunks before the last process_markdown
    todo,               \* rows fetched by generate_embeddings, not yet finished
    pendingUpd,         \* UPDATEs executed on the backfill connection, not committed
    calls,              \* history: embedding requests issued by this run
    failed,             \* history: the row whose request failed last, until a backfill completes
    idem,               \* history: "armed" when the last run's backfill completed and nothing
                        \* was ingested since, "yes" in a backfill that started armed
    startTables,        \* history: the two tables when this backfill fetched
    ingested,           \* history: how often each parent was ingested
    text, size, overlap,\* input and configuration of the chunker run
    chunks,             \* result of the chunker run
    cpc                 \* position of the chunker run

vars == <<pc, tablesExist, discourse_chunks, markdown_chunks, posts, docs,
          dBase, mBase, todo, pendingUpd, calls, failed, idem, startTables,
          ingested, text, size, overlap, chunks, cpc>>

pipeVars == <<pc, tablesExist, discourse_chunks, markdown_chunks, posts, docs,
              dBase, mBase, todo, pendingUpd, calls, failed, idem,
              startTables, ingested>>

chunkVars == <<text, size, overlap, chunks, cpc>>

----------------------------------------------------------------------------
(* Configuration and bounds *)

CHUNK_SIZE == 1000
CHUNK_OVERLAP == 200

MaxRows == 4        \* rows table discourse_chunks can hold in the model
MaxMdRows == 1      \* rows table markdown_chunks can hold in the model
MaxPosts == 1       \* posts in one DISCOURSE_FILE
MaxDocs == 2        \* files in one MARKDOWN_DIR
MaxLen == 5         \* length of a text given to the chunker run
MaxSize == 4        \* largest chunk size of the chunker run

NULL == "NULL"
NoField == "NoField"

Min(a, b) == IF a <= b THEN a ELSE b

----------------------------------------------------------------------------
(* Python string operations used by the code *)

Whitespace == {" ", "\n", "\t"}

\* text[a:b] for 0 <= a
Slice(t, a, b) == SubSeq(t, a + 1, Min(b, Len(t)))

\* text.replace('\n', ' ')
ReplaceNewlines(t) == [i \in DOMAIN t |-> IF t[i] = "\n" THEN " " ELSE t[i]]

RECURSIVE FirstNonWs(_, _)
FirstNonWs(t, i) ==
    IF i > Len(t) THEN i
    ELSE IF t[i] \in Whitespace THEN FirstNonWs(t, i + 1) ELSE i

RECURSIVE LastNonWs(_, _)
LastNonWs(t, i) ==
    IF i < 1 THEN i
    ELSE IF t[i] \in Whitespace THEN LastNonWs(t, i - 1) ELSE i

\* text.strip()
Strip(t) == SubSeq(t, FirstNonWs(t, 1), LastNonWs(t, Len(t)))

\* range(0, n, step) for step >= 1, as the sequence of its values
RangeSeq(n, step) == [k \in 1..((n + step - 1) \div step) |-> (k - 1) * step]

----------------------------------------------------------------------------
(* create_chunks, with the module-level CHUNK_SIZE / CHUNK_OVERLAP as      *)
(* parameters sz / ov                                                      *)

\* variant: the loop stops as soon as a window reaches the end of the text
ChunksNoTail(raw, sz, ov) ==
    LET t == Strip(ReplaceNewlines(raw))
        step == sz - ov
        n == IF Len(t) <= sz THEN 1 ELSE ((Len(t) - sz + step - 1) \div step) + 1
    IN  IF Len(t) <= sz THEN <<t>>
        ELSE [k \in 1..n |-> Slice(t, (k - 1) * step, (k - 1) * step + sz)]

\* variant: the window advances by the chunk size, the overlap is ignored
ChunksStepSize(raw, sz, ov) ==
    LET t == Strip(ReplaceNewlines(raw))
        starts == RangeSeq(Len(t), sz)
    IN  IF Len(t) <= sz THEN <<t>>
        ELSE [k \in DOMAIN starts |-> Slice(t, starts[k], starts[k] + sz)]

\* variant: the window is one character short (text[i:i + CHUNK_SIZE - 1])
ChunksShortWindow(raw, sz, ov) ==
    LET t == Strip(ReplaceNewlines(raw))
        starts == RangeSeq(Len(t), sz - ov)
    IN  IF Len(t) <= sz THEN <<t>>
        ELSE [k \in DOMAIN starts |-> Slice(t, starts[k], starts[k] + sz - 1)]

Chunks(raw, sz, ov) ==
    LET t == Strip(ReplaceNewlines(raw))
        starts == RangeSeq(Len(t), sz - ov)
    IN  IF Len(t) <= sz THEN <<t>>
        ELSE [k \in DOMAIN starts |-> Slice(t, starts[k], starts[k] + sz)]

create_chunks(raw) == Chunks(raw, CHUNK_SIZE, CHUNK_OVERLAP)

----------------------------------------------------------------------------
(* Inputs of a run: the posts file and the markdown directory *)

Rep(c, n) == [i \in 1..n |-> c]

\* a post record of DISCOURSE_FILE; meta stands for the seven columns that
\* are copied verbatim besides post_id (topic_id, topic_title, post_number,
\* author, created_at, like_count, url)
PShort == [post_id |-> 1, meta |-> "m1", content |-> <<" ", "h", "\n", "i", " ">>]
PLong == [post_id |-> 2, meta |-> "m2", content |-> Rep("A", 2500)]
PostSet == {PShort, PLong}

\* a file of MARKDOWN_DIR: md is filename.endswith(".md"), header is whether
\* the content starts with a ---\n ... \n---\n block, the three fields are
\* the quoted values found in that block (NoField: the key is not there)
DGood == [md |-> TRUE, header |-> TRUE, title |-> "X", url |-> "http://y",
          downloaded_at |-> "2024-01-01", body |-> <<>>]
DPlain == [md |-> TRUE, header |-> FALSE, title |-> NoField, url |-> NoField,
           downloaded_at |-> NoField, body |-> <<"b">>]
DBad == [md |-> TRUE, header |-> TRUE, title |-> NoField, url |-> "http://z",
         downloaded_at |-> "2024-01-02", body |-> <<"c">>]
DTxt == [md |-> FALSE, header |-> FALSE, title |-> NoField, url |-> NoField,
         downloaded_at |-> NoField, body |-> <<"d">>]
DocSet == {DGood, DPlain, DBad, DTxt}

SeqsUpTo(S, n) == UNION {[1..k -> S] : k \in 0..n}

PostFiles == SeqsUpTo(PostSet, MaxPosts)
DocDirs == SeqsUpTo(DocSet, MaxDocs)

Vectors == {"v1"}

PostIds == {p.post_id : p \in PostSet}
DocKeys == {<<"", "", "">>} \cup
           {<<d.title, d.url, d.downloaded_at>> : d \in DocSet}

----------------------------------------------------------------------------
(* process_discourse *)

\* variant: chunk_index is not taken from enumerate
DiscourseRowsIndexZero(post) ==
    LET cs == create_chunks(Strip(post.content))
    IN  [k \in DOMAIN cs |->
            [post_id |-> post.post_id, meta |-> post.meta,
             chunk_index |-> 0, content |-> cs[k], embedding |-> NULL]]

\* the rows inserted for one post: one per chunk, chunk_index = enumerate index
DiscourseRows(post) ==
    LET cs == create_chunks(Strip(post.content))
    IN  [k \in DOMAIN cs |->
            [post_id |-> post.post_id, meta |-> post.meta,
             chunk_index |-> k - 1, content |-> cs[k], embedding |-> NULL]]

RECURSIVE AllDiscourseRows(_)
AllDiscourseRows(ps) ==
    IF ps = <<>> THEN <<>>
    ELSE DiscourseRows(Head(ps)) \o AllDiscourseRows(Tail(ps))

RECURSIVE CountIn(_, _)
CountIn(s, x) ==
    IF s = <<>> THEN 0
    ELSE (IF Head(s) = x THEN 1 ELSE 0) + CountIn(Tail(s), x)

----------------------------------------------------------------------------
(* process_markdown *)

\* front-matter extraction: ok = FALSE is the AttributeError raised by
\* re.search(...).group(1) when a key is not in the header block
ParseDoc(doc) ==
    IF ~doc.header
    THEN [ok |-> TRUE, title |-> "", url |-> "", downloaded_at |-> "",
          content |-> doc.body]
    ELSE IF NoField \in {doc.title, doc.url, doc.downloaded_at}
    THEN [ok |-> FALSE, title |-> "", url |-> "", downloaded_at |-> "",
          content |-> doc.body]
    ELSE [ok |-> TRUE, title |-> doc.title, url |-> doc.url,
          downloaded_at |-> doc.downloaded_at, content |-> doc.body]

MarkdownRows(doc) ==
    LET m == ParseDoc(doc)
        cs == create_chunks(m.content)
    IN  [k \in DOMAIN cs |->
            [doc_title |-> m.title, original_url |-> m.url,
             downloaded_at |-> m.downloaded_at, chunk_index |-> k - 1,
             content |-> cs[k], embedding |-> NULL]]

\* the loop over os.listdir: files not ending in .md are skipped; the first
\* file whose header lacks a key raises, and nothing of the pass is committed
RECURSIVE MarkdownPass(_)
MarkdownPass(ds) ==
    IF ds = <<>> THEN [ok |-> TRUE, rows |-> <<>>, keys |-> <<>>]
    ELSE LET d == Head(ds)
             rest == MarkdownPass(Tail(ds))
         IN  IF ~d.md THEN rest
             ELSE IF ~ParseDoc(d).ok THEN [ok |-> FALSE, rows |-> <<>>, keys |-> <<>>]
             ELSE IF ~rest.ok THEN rest
             ELSE LET m == ParseDoc(d)
                  IN  [ok |-> TRUE,
                       rows |-> MarkdownRows(d) \o rest.rows,
                       keys |-> <<<<m.title, m.url, m.downloaded_at>>>> \o rest.keys]

----------------------------------------------------------------------------
(* generate_embeddings *)

\* SELECT id, content FROM <table> WHERE embedding IS NULL, as the sequence
\* of [table, id] in ascending id
RECURSIVE SelectFrom(_, _, _)
SelectFrom(tbl, name, i) ==
    IF i > Len(tbl) THEN <<>>
    ELSE (IF tbl[i].embedding = NULL THEN <<[table |-> name, id |-> i]>> ELSE <<>>)
         \o SelectFrom(tbl, name, i + 1)

\* variant: the SELECT has no WHERE embedding IS NULL
FetchAllRows(tbl, name) == [i \in DOMAIN tbl |-> [table |-> name, id |-> i]]

fetch_unembedded(tbl, name) == SelectFrom(tbl, name, 1)

Table(name) == IF name = "discourse_chunks" THEN discourse_chunks ELSE markdown_chunks

\* UPDATE <table> SET embedding=? WHERE id=?
ApplyUpd(tbl, name, upd) ==
    [i \in DOMAIN tbl |->
        IF \E u \in upd : u.table = name /\ u.id = i
        THEN [tbl[i] EXCEPT !.embedding =
                 (CHOOSE u \in upd : u.table = name /\ u.id = i).embedding]
        ELSE tbl[i]]

----------------------------------------------------------------------------
(* The pipeline: one run of main() after another on the same store *)

NoFail == [table |-> "none", id |-> 0]
Stopped == {"done", "failed_md", "failed_embed", "killed"}

Init ==
    /\ pc = "start"
    /\ tablesExist = FALSE
    /\ discourse_chunks = <<>>
    /\ markdown_chunks = <<>>
    /\ posts = <<>>
    /\ docs = <<>>
    /\ dBase = 0
    /\ mBase = 0
    /\ todo = <<>>
    /\ pendingUpd = {}
    /\ calls = {}
    /\ failed = NoFail
    /\ idem = "no"
    /\ startTables = <<>>
    /\ ingested = [d |-> [p \in PostIds |-> 0], m |-> [k \in DocKeys |-> 0]]
    /\ text = <<>> /\ size = 1 /\ overlap = 0 /\ chunks = <<>> /\ cpc = "off"

\* create_db: CREATE TABLE IF NOT EXISTS for both tables, commit
create_db ==
    /\ pc = "start"
    /\ tablesExist' = TRUE
    /\ pc' = "discourse"
    /\ UNCHANGED <<discourse_chunks, markdown_chunks, posts, docs, dBase, mBase,
                   todo, pendingUpd, calls, failed, idem, startTables, ingested>>
    /\ UNCHANGED chunkVars

\* process_discourse: insert the rows of every post of the file, commit once
process_discourse ==
    /\ pc = "discourse"
    /\ \E ps \in PostFiles :
        LET rows == AllDiscourseRows(ps)
        IN  /\ Len(discourse_chunks) + Len(rows) <= MaxRows
            /\ posts' = ps
            /\ dBase' = Len(discourse_chunks)
            /\ discourse_chunks' = discourse_chunks \o rows
            /\ ingested' = [ingested EXCEPT !.d =
                   [p \in PostIds |->
                       @[p] + Cardinality({i \in DOMAIN ps : ps[i].post_id = p})]]
            /\ idem' = IF rows = <<>> THEN idem ELSE "no"
    /\ pc' = "markdown"
    /\ UNCHANGED <<tablesExist, markdown_chunks, docs, mBase, todo,
                   pendingUpd, calls, failed, startTables>>
    /\ UNCHANGED chunkVars

\* process_markdown, every header well-formed: insert the rows of every .md
\* file, commit once
process_markdown ==
    /\ pc = "markdown"
    /\ \E ds \in DocDirs :
        LET r == MarkdownPass(ds)
        IN  /\ r.ok
            /\ Len(markdown_chunks) + Len(r.rows) <= MaxMdRows
            /\ docs' = ds
            /\ mBase' = Len(markdown_chunks)
            /\ markdown_chunks' = markdown_chunks \o r.rows
            /\ ingested' = [ingested EXCEPT !.m =
                   [k \in DocKeys |-> @[k] + CountIn(r.keys, k)]]
            /\ idem' = IF r.rows = <<>> THEN idem ELSE "no"
    /\ pc' = "fetch"
    /\ posts' = <<>>
    /\ dBase' = Len(discourse_chunks)
    /\ UNCHANGED <<tablesExist, discourse_chunks, todo, pendingUpd, calls,
                   failed, startTables>>
    /\ UNCHANGED chunkVars

\* process_markdown, a header lacks a key: the AttributeError leaves the
\* function before conn.commit() and ends main(); the inserts of the pass
\* are rolled back
process_markdown_raises ==
    /\ pc = "markdown"
    /\ \E ds \in DocDirs :
        /\ ~MarkdownPass(ds).ok
        /\ docs' = ds
    /\ mBase' = Len(markdown_chunks)
    /\ posts' = <<>>
    /\ dBase' = Len(discourse_chunks)
    /\ pc' = "failed_md"
    /\ UNCHANGED <<tablesExist, discourse_chunks, markdown_chunks, todo,
                   pendingUpd, calls, failed, idem, startTables, ingested>>
    /\ UNCHANGED chunkVars

\* generate_embeddings, lines 141-146: the two SELECTs; the outer loop takes
\* the discourse rows first, then the markdown rows
\* variant: the outer loop forgets the markdown rows
FetchedDiscourseOnly(d, m) == fetch_unembedded(d, "discourse_chunks")

Fetched(d, m) ==
    fetch_unembedded(d, "discourse_chunks") \o fetch_unembedded(m, "markdown_chunks")

EmbedFetch ==
    /\ pc = "fetch"
    /\ todo' = Fetched(discourse_chunks, markdown_chunks)
    /\ startTables' = <<discourse_chunks, markdown_chunks>>
    /\ idem' = IF idem = "armed" THEN "yes" ELSE "no"
    /\ pc' = "loop"
    /\ docs' = <<>>
    /\ mBase' = Len(markdown_chunks)
    /\ UNCHANGED <<tablesExist, discourse_chunks, markdown_chunks, posts,
                   dBase, pendingUpd, calls, failed, ingested>>
    /\ UNCHANGED chunkVars

\* session.post(url, json={"model": model, "input": content}) for the next row
EmbedRequest ==
    /\ pc = "loop"
    /\ todo # <<>>
    /\ LET r == Head(todo)
       IN  calls' = calls \cup
               {[table |-> r.table, id |-> r.id,
                 wasEmbedded |-> Table(r.table)[r.id].embedding # NULL]}
    /\ pc' = "await"
    /\ UNCHANGED <<tablesExist, discourse_chunks, markdown_chunks, posts, docs,
                   dBase, mBase, todo, pendingUpd, failed, idem, startTables,
                   ingested>>
    /\ UNCHANGED chunkVars

\* the response holds a vector: json.dumps(...).encode(), UPDATE executed
EmbedResponse ==
    /\ pc = "await"
    /\ \E v \in Vectors :
        pendingUpd' = pendingUpd \cup
            {[table |-> Head(todo).table, id |-> Head(todo).id, embedding |-> v]}
    /\ pc' = "commit"
    /\ UNCHANGED <<tablesExist, discourse_chunks, markdown_chunks, posts, docs,
                   dBase, mBase, todo, calls, failed, idem, startTables, ingested>>
    /\ UNCHANGED chunkVars

\* the request fails or the response has no data[0].embedding: the exception
\* leaves generate_embeddings and ends main()
EmbedRaises ==
    /\ pc = "await"
    /\ failed' = Head(todo)
    /\ pendingUpd' = {}
    /\ pc' = "failed_embed"
    /\ UNCHANGED <<tablesExist, discourse_chunks, markdown_chunks, posts, docs,
                   dBase, mBase, todo, calls, idem, startTables, ingested>>
    /\ UNCHANGED chunkVars

\* variant: no commit inside the row loop
EmbedCommitDeferred ==
    /\ pc = "commit"
    /\ todo' = Tail(todo)
    /\ pc' = "loop"
    /\ UNCHANGED <<tablesExist, discourse_chunks, markdown_chunks, posts, docs,
                   dBase, mBase, pendingUpd, calls, failed, idem, startTables,
                   ingested>>
    /\ UNCHANGED chunkVars

\* conn.commit() inside the row loop, then the loop moves to the next row
EmbedCommit ==
    /\ pc = "commit"
    /\ discourse_chunks' = ApplyUpd(discourse_chunks, "discourse_chunks", pendingUpd)
    /\ markdown_chunks' = ApplyUpd(markdown_chunks, "markdown_chunks", pendingUpd)
    /\ pendingUpd' = {}
    /\ todo' = Tail(todo)
    /\ pc' = "loop"
    /\ UNCHANGED <<tablesExist, posts, docs, dBase, mBase, calls, failed, idem,
                   startTables, ingested>>
    /\ UNCHANGED chunkVars

\* both loops are exhausted: session.close(), conn.close(), main() returns
EmbedFinish ==
    /\ pc = "loop"
    /\ todo = <<>>
    /\ pendingUpd' = {}
    /\ failed' = NoFail
    /\ pc' = "done"
    /\ UNCHANGED <<tablesExist, discourse_chunks, markdown_chunks, posts, docs,
                   dBase, mBase, todo, calls, idem, startTables, ingested>>
    /\ UNCHANGED chunkVars

\* the process is interrupted: what the open connection has not committed is
\* rolled back (the ingestion passes commit once, at their end, so an
\* interrupted pass leaves no row)
Interrupt ==
    /\ pc \notin Stopped
    /\ pendingUpd' = {}
    /\ pc' = "killed"
    /\ UNCHANGED <<tablesExist, discourse_chunks, markdown_chunks, posts, docs,
                   dBase, mBase, todo, calls, failed, idem, startTables, ingested>>
    /\ UNCHANGED chunkVars

\* the script is started again on the same store
Rerun ==
    /\ pc \in Stopped
    /\ pc' = "start"
    /\ posts' = <<>>
    /\ docs' = <<>>
    /\ dBase' = Len(discourse_chunks)
    /\ mBase' = Len(markdown_chunks)
    /\ todo' = <<>>
    /\ calls' = {}
    /\ startTables' = <<>>
    /\ idem' = IF pc = "done" THEN "armed" ELSE "no"
    /\ UNCHANGED <<tablesExist, discourse_chunks, markdown_chunks, pendingUpd,
                   failed, ingested>>
    /\ UNCHANGED chunkVars

Next ==
    \/ create_db
    \/ process_discourse
    \/ process_markdown
    \/ process_markdown_raises
    \/ EmbedFetch
    \/ EmbedRequest
    \/ EmbedResponse
    \/ EmbedRaises
    \/ EmbedCommit
    \/ EmbedFinish
    \/ Interrupt
    \/ Rerun

Spec == Init /\ [][Next]_vars

----------------------------------------------------------------------------
(* The chunker alone: create_chunks applied to one text under one          *)
(* configuration (chunk size, overlap) with 0 <= overlap < size            *)

Alphabet == {"a", "b", "\n"}
Texts == SeqsUpTo(Alphabet, MaxLen)

InitChunk ==
    /\ pc = "off"
    /\ tablesExist = FALSE
    /\ discourse_chunks = <<>>
    /\ markdown_chunks = <<>>
    /\ posts = <<>>
    /\ docs = <<>>
    /\ dBase = 0
    /\ mBase = 0
    /\ todo = <<>>
    /\ pendingUpd = {}
    /\ calls = {}
    /\ failed = NoFail
    /\ idem = "no"
    /\ startTables = <<>>
    /\ ingested = [d |-> [p \in PostIds |-> 0], m |-> [k \in DocKeys |-> 0]]
    /\ text \in Texts
    /\ size \in 1..MaxSize
    /\ overlap \in 0..(size - 1)
    /\ chunks = <<>>
    /\ cpc = "ready"

RunChunker ==
    /\ cpc = "ready"
    /\ chunks' = Chunks(text, size, overlap)
    /\ cpc' = "done"
    /\ UNCHANGED <<text, size, overlap>>
    /\ UNCHANGED pipeVars

NextChunk == RunChunker

SpecChunk == InitChunk /\ [][NextChunk]_vars

----------------------------------------------------------------------------
(* Properties *)

AllEmbedded(tbl) == \A i \in DOMAIN tbl : tbl[i].embedding # NULL

\* C1: when the request for a row fails, every earlier row of that table
\* keeps its embedding, and the runs that follow issue requests only for the
\* failed row and the rows after it in that table, and never for a row that
\* already has an embedding.
C1_RetryResumesAtFailedRow ==
    /\ \A c \in calls : ~c.wasEmbedded
    /\ failed # NoFail =>
        /\ \A i \in 1..(failed.id - 1) : Table(failed.table)[i].embedding # NULL
        /\ pc # "failed_embed" =>
               \A c \in calls : c.table = failed.table => c.id >= failed.id

C1_Witness ==
    /\ failed.id >= 2
    /\ pc = "loop"
    /\ todo = <<>>
    /\ \E c \in calls : c.table = failed.table /\ c.id = failed.id

\* C2: when generate_embeddings has completed, no row of either table has a
\* null embedding.
C2_NoNullAfterBackfill ==
    pc = "done" => AllEmbedded(discourse_chunks) /\ AllEmbedded(markdown_chunks)

C2_Witness ==
    /\ pc = "done"
    /\ Len(discourse_chunks) >= 2
    /\ Len(markdown_chunks) >= 1

\* C3: a backfill that follows a completed backfill with no row ingested in
\* between issues no embedding request and changes no row.
C3_SecondBackfillIdle ==
    idem = "yes" =>
        /\ calls = {}
        /\ <<discourse_chunks, markdown_chunks>> = startTables

C3_Witness ==
    /\ idem = "yes"
    /\ pc = "done"
    /\ Len(discourse_chunks) >= 1
    /\ Len(markdown_chunks) >= 1

\* C4: a row is created with a null embedding; an embedding that is set is
\* never cleared, changed or written again, and the row is never deleted.
C4_Step(name, old, new) ==
    /\ \A i \in DOMAIN old :
          old[i].embedding # NULL =>
              i \in DOMAIN new /\ new[i].embedding = old[i].embedding
    /\ \A i \in DOMAIN new : i \notin DOMAIN old => new[i].embedding = NULL
    /\ \A u \in pendingUpd' :
          u.table = name /\ u \notin pendingUpd => old[u.id].embedding = NULL

C4_EmbeddingWrittenOnce ==
    [][/\ C4_Step("discourse_chunks", discourse_chunks, discourse_chunks')
       /\ C4_Step("markdown_chunks", markdown_chunks, markdown_chunks')]_vars

C4_Witness ==
    /\ pc = "commit"
    /\ Cardinality(calls) = 1
    /\ Head(todo).table = "discourse_chunks"
    /\ \E i \in DOMAIN discourse_chunks : discourse_chunks[i].embedding # NULL

\* C5 as stated: no two rows of a table have the same parent and chunk_index.
C5_TripleUnique ==
    /\ \A i, j \in DOMAIN discourse_chunks :
          (/\ discourse_chunks[i].post_id = discourse_chunks[j].post_id
           /\ discourse_chunks[i].chunk_index = discourse_chunks[j].chunk_index)
          => i = j
    /\ \A i, j \in DOMAIN markdown_chunks :
          (/\ markdown_chunks[i].doc_title = markdown_chunks[j].doc_title
           /\ markdown_chunks[i].original_url = markdown_chunks[j].original_url
           /\ markdown_chunks[i].downloaded_at = markdown_chunks[j].downloaded_at
           /\ markdown_chunks[i].chunk_index = markdown_chunks[j].chunk_index)
          => i = j

MdKey(row) == <<row.doc_title, row.original_url, row.downloaded_at>>

\* C5, amended: the rows of a table that have the same parent and the same
\* chunk_index are never more than the times that parent was ingested; so
\* the triple is unique as long as no parent is ingested twice.
C5_OneRowPerIngestion ==
    /\ \A p \in PostIds : \A k \in 0..MaxRows :
          Cardinality({i \in DOMAIN discourse_chunks :
                          /\ discourse_chunks[i].post_id = p
                          /\ discourse_chunks[i].chunk_index = k})
              <= ingested.d[p]
    /\ \A key \in DocKeys : \A k \in 0..MaxMdRows :
          Cardinality({i \in DOMAIN markdown_chunks :
                          /\ MdKey(markdown_chunks[i]) = key
                          /\ markdown_chunks[i].chunk_index = k})
              <= ingested.m[key]

C5_Witness ==
    \E i, j \in DOMAIN discourse_chunks :
        /\ i # j
        /\ discourse_chunks[i].post_id = discourse_chunks[j].post_id
        /\ discourse_chunks[i].chunk_index = discourse_chunks[j].chunk_index
        /\ ingested.d[discourse_chunks[i].post_id] = 2

\* the rows the last process_discourse inserted
NewDiscourseRows == SubSeq(discourse_chunks, dBase + 1, Len(discourse_chunks))

OnePostOf2500 == Len(posts) = 1 /\ Len(posts[1].content) = 2500

\* C6 as stated: one post of 2500 characters yields exactly 3 rows, with
\* chunk_index 0, 1, 2 and the post's post_id.
C6_ThreeRows ==
    OnePostOf2500 =>
        /\ Len(NewDiscourseRows) = 3
        /\ \A k \in 1..Len(NewDiscourseRows) :
              /\ NewDiscourseRows[k].chunk_index = k - 1
              /\ NewDiscourseRows[k].post_id = posts[1].post_id

\* C6, amended: one post of 2500 characters yields exactly 4 rows, with
\* chunk_index 0, 1, 2, 3 and the post's post_id (windows starting at 0,
\* 800, 1600 and 2400; the last one holds the final 100 characters).
C6_FourRows ==
    OnePostOf2500 =>
        /\ Len(NewDiscourseRows) = 4
        /\ \A k \in 1..Len(NewDiscourseRows) :
              /\ NewDiscourseRows[k].chunk_index = k - 1
              /\ NewDiscourseRows[k].post_id = posts[1].post_id
        /\ Len(NewDiscourseRows[3].content) = 900
        /\ Len(NewDiscourseRows[4].content) = 100

C6_Witness == OnePostOf2500 /\ pc = "markdown"

\* the rows the last process_markdown inserted
NewMarkdownRows == SubSeq(markdown_chunks, mBase + 1, Len(markdown_chunks))

HasMalformed(ds) == \E i \in DOMAIN ds : ds[i].md /\ ~ParseDoc(ds[i]).ok

RECURSIVE WellFormedRows(_)
WellFormedRows(ds) ==
    IF ds = <<>> THEN <<>>
    ELSE (IF Head(ds).md /\ ParseDoc(Head(ds)).ok
          THEN MarkdownRows(Head(ds)) ELSE <<>>)
         \o WellFormedRows(Tail(ds))

\* C9: a document whose header lacks a required field contributes no rows
\* and does not abort the run: the rows of the other documents of the same
\* pass are inserted and persisted.
C9_MalformedDocumentContained ==
    HasMalformed(docs) =>
        /\ pc # "failed_md"
        /\ NewMarkdownRows = WellFormedRows(docs)

InTodo(c) == \E k \in DOMAIN todo : todo[k].table = c.table /\ todo[k].id = c.id

\* C10: a row's update is committed before the request for the next row is
\* issued, so at most one row has an update that is not yet committed, and a
\* row whose update was committed stays embedded when the process is
\* interrupted.
C10_PerRowCommit ==
    /\ Cardinality(pendingUpd) <= 1
    /\ pc \in {"loop", "await"} => pendingUpd = {}
    /\ \A c \in calls : ~InTodo(c) => Table(c.table)[c.id].embedding # NULL

C10_Witness ==
    /\ pc = "killed"
    /\ Cardinality(calls) >= 2
    /\ todo # <<>>
    /\ \E c \in calls : c.table = Head(todo).table /\ c.id = Head(todo).id
    /\ Table(Head(todo).table)[Head(todo).id].embedding = NULL

----------------------------------------------------------------------------
(* Properties of the chunker *)

Normalized == Strip(ReplaceNewlines(text))
Step == size - overlap

\* text[a:b] written out: the characters at offsets a .. min(b, len) - 1
Window(t, a, b) == [j \in 1..(Min(b, Len(t)) - a) |-> t[a + j]]

LastChars(c, n) == SubSeq(c, Len(c) - Min(n, Len(c)) + 1, Len(c))
FirstChars(c, n) == SubSeq(c, 1, Min(n, Len(c)))

IsWindows ==
    \A k \in DOMAIN chunks :
        chunks[k] = Window(Normalized, (k - 1) * Step, (k - 1) * Step + size)

OverlapAgrees(i) == LastChars(chunks[i], overlap) = FirstChars(chunks[i + 1], overlap)

\* C7 as stated: for a text longer than size, chunk i is the window
\* text[i*step : i*step + size], and every consecutive pair other than the
\* final pair agrees on its overlap region.
C7_OverlapExceptFinalPair ==
    (cpc = "done" /\ Len(Normalized) > size) =>
        /\ IsWindows
        /\ \A i \in 1..(Len(chunks) - 2) : OverlapAgrees(i)

\* C7, amended: chunk i is that window, and a consecutive pair agrees on its
\* overlap region whenever its second chunk has at least overlap characters;
\* when overlap <= size / 2 that is every pair other than the final pair.
C7_OverlapWhenSecondLongEnough ==
    (cpc = "done" /\ Len(Normalized) > size) =>
        /\ IsWindows
        /\ \A i \in 1..(Len(chunks) - 1) :
              Len(chunks[i + 1]) >= overlap => OverlapAgrees(i)
        /\ 2 * overlap <= size =>
              \A i \in 1..(Len(chunks) - 2) : OverlapAgrees(i)

C7_Witness ==
    /\ cpc = "done"
    /\ Len(Normalized) > size
    /\ overlap >= 1
    /\ \E i \in 1..(Len(chunks) - 2) : Len(chunks[i + 1]) < overlap
    /\ \E i \in 1..(Len(chunks) - 2) : Len(chunks[i + 1]) >= overlap

\* chunk 0, then every later chunk without the part that overlaps the
\* previous chunk (its first overlap characters, all of it when shorter)
RECURSIVE Reassemble(_, _)
Reassemble(cs, ov) ==
    IF Len(cs) <= 1 THEN (IF cs = <<>> THEN <<>> ELSE cs[1])
    ELSE LET last == cs[Len(cs)]
         IN  Reassemble(SubSeq(cs, 1, Len(cs) - 1), ov)
             \o SubSeq(last, Min(ov, Len(last)) + 1, Len(last))

\* C8: the chunks of a text, in order and with the overlaps removed, give
\* the normalized text back, also when the last chunk is shorter than the
\* overlap.
C8_ReassembleGivesText ==
    cpc = "done" => Reassemble(chunks, overlap) = Normalized

C8_Witness ==
    /\ cpc = "done"
    /\ Len(chunks) >= 3
    /\ Len(chunks[Len(chunks)]) < overlap
    /\ \E i, j \in DOMAIN Normalized : Normalized[i] # Normalized[j]

====
